---- MODULE Spec2Model ----
\* A model of enrich_bibtex.py: the command line pipeline that reads BibTeX
\* entries, filters them by key, queries Crossref for each title, adds the DOI
\* of a matching item and writes the entries as BibTeX or TSV.
\*
\* Text is modelled as a sequence of one-character strings, so that strip(),
\* split(','), casefold(), lower() and the newline regex are computed and not
\* assumed.  An optional value (Python None or a value) is a sequence of
\* length at most one: None is <<>>, a value v is <<v>>.
EXTENDS Naturals, Sequences, FiniteSets, TLC

VARIABLES
    pc,        \* position of the script (or of the function harness)
    args,      \* argparse namespace: format, tsv_fields, email, keys
    parsed,    \* the entries as get_bibtex returned them
    bibtex,    \* BibDatabase: entries (list) and entries_dict (its keys)
    keys,      \* result of get_keys: None or the list of stripped lines
    missing,   \* result of check_keys
    cr,        \* the Crossref client the queries go through
    i,         \* position of the for loop of enrich_from_crossref
    okcount,   \* okcount of enrich_from_crossref
    items,     \* res['message']['items'] of the last query (None before)
    item,      \* result of the last get_matching_item
    before,    \* the entry of the last answered query, as it was then
    queries,   \* the queries issued to the external service, in order
    stdout,    \* the per-entry diagnostics printed so far
    output,    \* what was written to args.output (None while nothing is)
    error      \* the exception that ended the run ("" while none)

vars == <<pc, args, parsed, bibtex, keys, missing, cr, i, okcount, items, item,
          before, queries, stdout, output, error>>

----------------------------------------------------------------------------
\* Bounds of the model.

MaxEntries == 2    \* entries in the input file
MaxKeys == 3       \* lines in the key file
MaxItems == 2      \* items in one Crossref response
MaxFields == 2     \* field names in --tsv-fields

----------------------------------------------------------------------------
\* Optional values and small helpers.

None == <<>>
Some(v) == <<v>>
IsNone(o) == Len(o) = 0
Val(o) == o[1]

Min(a, b) == IF a <= b THEN a ELSE b

Range(s) == {s[n] : n \in DOMAIN s}

\* sequences over S of length lo..hi
SeqsBetween(S, lo, hi) == UNION {[1..n -> S] : n \in lo..hi}

\* Python "x in list"
InList(x, list) == \E n \in DOMAIN list : list[n] = x

----------------------------------------------------------------------------
\* Text functions.

UpperChars == <<"A","B","C","D","E","F","G","H","I","J","K","L","M",
                "N","O","P","Q","R","S","T","U","V","W","X","Y","Z">>
LowerChars == <<"a","b","c","d","e","f","g","h","i","j","k","l","m",
                "n","o","p","q","r","s","t","u","v","w","x","y","z">>

IsUpper(c) == \E n \in DOMAIN UpperChars : UpperChars[n] = c

ToLowerChar(c) ==
    IF IsUpper(c)
    THEN LowerChars[CHOOSE n \in DOMAIN UpperChars : UpperChars[n] = c]
    ELSE c

\* str.lower(): one character for each character
Lower(t) == [n \in DOMAIN t |-> ToLowerChar(t[n])]

\* str.casefold(): as lower(), and the sharp s becomes "ss"
RECURSIVE CaseFold(_)
CaseFold(t) ==
    IF t = <<>> THEN <<>>
    ELSE (IF Head(t) = "ß" THEN <<"s", "s">> ELSE <<ToLowerChar(Head(t))>>)
         \o CaseFold(Tail(t))

IsSpace(c) == c \in {" ", "\t", "\n", "\r"}

\* str.strip(): leading and trailing whitespace removed
RECURSIVE LStrip(_)
LStrip(t) == IF t # <<>> /\ IsSpace(Head(t)) THEN LStrip(Tail(t)) ELSE t

RECURSIVE RStrip(_)
RStrip(t) ==
    IF t # <<>> /\ IsSpace(t[Len(t)]) THEN RStrip(SubSeq(t, 1, Len(t) - 1)) ELSE t

Strip(t) == RStrip(LStrip(t))

\* str.split(','): the pieces between the commas, empty pieces included
RECURSIVE SplitFrom(_, _, _)
SplitFrom(t, sep, piece) ==
    IF t = <<>> THEN <<piece>>
    ELSE IF Head(t) = sep THEN <<piece>> \o SplitFrom(Tail(t), sep, <<>>)
    ELSE SplitFrom(Tail(t), sep, Append(piece, Head(t)))

Split(t, sep) == SplitFrom(t, sep, <<>>)

----------------------------------------------------------------------------
\* Field names of an entry (a Python dict from field name to text).

F_ID == <<"I","D">>
F_ENTRYTYPE == <<"E","N","T","R","Y","T","Y","P","E">>
F_title == <<"t","i","t","l","e">>
F_doi == <<"d","o","i">>
F_year == <<"y","e","a","r">>
F_author == <<"a","u","t","h","o","r">>

\* dict.get(f, default)
Get(entry, f, default) == IF f \in DOMAIN entry THEN entry[f] ELSE default

\* entry[f] = v
Put(entry, f, v) == [g \in DOMAIN entry \cup {f} |-> IF g = f THEN v ELSE entry[g]]

----------------------------------------------------------------------------
\* get_bibtex and the customization it installs (clean_tex).

\* length of the whitespace run t starts with
RECURSIVE SpaceRun(_)
SpaceRun(t) == IF t # <<>> /\ IsSpace(Head(t)) THEN 1 + SpaceRun(Tail(t)) ELSE 0

\* re_newline.sub(" ", t) with re_newline = \s*\n\s*: every maximal run of
\* whitespace that holds a line break becomes one space
RECURSIVE re_newline_sub(_)
re_newline_sub(t) ==
    IF t = <<>> THEN <<>>
    ELSE IF IsSpace(Head(t))
    THEN LET n == SpaceRun(t)
             run == SubSeq(t, 1, n)
         IN  (IF "\n" \in Range(run) THEN <<" ">> ELSE run)
             \o re_newline_sub(SubSeq(t, n + 1, Len(t)))
    ELSE <<Head(t)>> \o re_newline_sub(Tail(t))

CleanedFields == {F_title, F_author, <<"e","d","i","t","o","r">>,
                  <<"j","o","u","r","n","a","l">>,
                  <<"b","o","o","k","t","i","t","l","e">>,
                  <<"s","e","r","i","e","s">>}

clean_fields(record) ==
    [f \in DOMAIN record |->
        IF f \in CleanedFields THEN re_newline_sub(record[f]) ELSE record[f]]

\* bibtexparser.customization.convert_to_unicode: the LaTeX escape "\&" (one
\* element of the text here) stands for the conversions of the library
convert_to_unicode(record) ==
    [f \in DOMAIN record |->
        IF f = F_ID THEN record[f]
        ELSE [n \in DOMAIN record[f] |->
                 IF record[f][n] = "\\&" THEN "&" ELSE record[f][n]]]

clean_tex(record) == clean_fields(convert_to_unicode(record))

\* the entries bibtexparser.load returns for the raw records of the file
get_bibtex(raw) == [n \in DOMAIN raw |-> clean_tex(raw[n])]

----------------------------------------------------------------------------
\* get_keys, check_keys, filter_keys.

get_keys(f) ==
    IF ~IsNone(f) THEN Some([n \in DOMAIN Val(f) |-> Strip(Val(f)[n])]) ELSE None

\* bib.entries_dict: the library builds the dict from bib.entries when its
\* cache is empty and returns the cache otherwise (only the keys are modelled)
entries_dict(bib) ==
    IF bib.entries_dict = {}
    THEN {bib.entries[n][F_ID] : n \in DOMAIN bib.entries}
    ELSE bib.entries_dict

RECURSIVE check_keys_loop(_, _)
check_keys_loop(dict, ks) ==
    IF ks = <<>> THEN <<>>
    ELSE (IF Head(ks) \notin dict THEN <<Head(ks)>> ELSE <<>>)
         \o check_keys_loop(dict, Tail(ks))

check_keys(bib, ks) == check_keys_loop(entries_dict(bib), ks)

RECURSIVE filter_entries(_, _)
filter_entries(entries, ks) ==
    IF entries = <<>> THEN <<>>
    ELSE (IF InList(Head(entries)[F_ID], ks) THEN <<Head(entries)>> ELSE <<>>)
         \o filter_entries(Tail(entries), ks)

\* filter_keys with the test reversed: the entries whose key is not in ks stay
filter_keys_inverted(bib, ks) ==
    [bib EXCEPT !.entries =
        SelectSeq(bib.entries, LAMBDA e : ~InList(e[F_ID], ks))]

\* the database after filter_keys: the entries rebuilt, and the keys that are
\* in ks deleted from the dict
filter_keys(bib, ks) ==
    LET rebuilt == [bib EXCEPT !.entries = filter_entries(bib.entries, ks)]
    IN  [rebuilt EXCEPT !.entries_dict =
            {k \in entries_dict(rebuilt) : ~InList(k, ks)}]

----------------------------------------------------------------------------
\* write_tsv and write_bib.

\* write_tsv without writer.writeheader()
write_tsv_no_header(bib, fields) ==
    LET fieldnames == Split(fields, ",")
    IN  [n \in DOMAIN bib.entries |->
            [k \in DOMAIN fieldnames |-> Get(bib.entries[n], fieldnames[k], <<>>)]]

\* csv.DictWriter(f, fields.split(','), extrasaction='ignore'): the header,
\* then for each entry the cells of the field names, '' for a missing one
write_tsv(bib, fields) ==
    LET fieldnames == Split(fields, ",")
        row(entry) == [n \in DOMAIN fieldnames |-> Get(entry, fieldnames[n], <<>>)]
    IN  <<fieldnames>> \o [n \in DOMAIN bib.entries |-> row(bib.entries[n])]

\* bibtexparser.dump: every entry with every field
write_bib(bib) == bib.entries

----------------------------------------------------------------------------
\* get_matching_item and enrich_entry.  Each returns the exception it raised
\* ("" when it returned), its result and what it printed.

\* get_matching_item comparing the titles as they are, without casefold()
get_matching_item_exact(bibentry, its) ==
    IF its = <<>>
    THEN [exc |-> "IndexError", item |-> None, printed |-> <<>>]
    ELSE IF its[1].title[1] = bibentry[F_title]
    THEN [exc |-> "", item |-> Some(its[1]), printed |-> <<>>]
    ELSE [exc |-> "", item |-> None,
          printed |-> <<[kind |-> "no match", ID |-> bibentry[F_ID],
                         title |-> bibentry[F_title],
                         best_title |-> its[1].title, best_DOI |-> its[1].DOI]>>]

get_matching_item(bibentry, its) ==
    IF its = <<>>
    THEN [exc |-> "IndexError", item |-> None, printed |-> <<>>]
    ELSE LET first == its[1]
         IN  IF first.title = <<>>
             THEN [exc |-> "IndexError", item |-> None, printed |-> <<>>]
             ELSE IF F_title \notin DOMAIN bibentry
             THEN [exc |-> "KeyError", item |-> None, printed |-> <<>>]
             ELSE IF CaseFold(first.title[1]) = CaseFold(bibentry[F_title])
             THEN [exc |-> "", item |-> Some(first), printed |-> <<>>]
             ELSE [exc |-> "", item |-> None,
                   printed |-> <<[kind |-> "no match",
                                  ID |-> bibentry[F_ID],
                                  title |-> bibentry[F_title],
                                  best_title |-> first.title,
                                  best_DOI |-> first.DOI]>>]

\* enrich_entry that sets the DOI whether or not the entry has one
enrich_entry_overwrite(bibentry, it) ==
    [exc |-> "", entry |-> Put(bibentry, F_doi, it.DOI), printed |-> <<>>]

enrich_entry(bibentry, it) ==
    LET doi == it.DOI
    IN  IF F_doi \in DOMAIN bibentry
        THEN IF Lower(bibentry[F_doi]) # Lower(doi)
             \* print(i, "DOI mismatch:", ...): no name i exists in that scope
             THEN [exc |-> "NameError", entry |-> bibentry, printed |-> <<>>]
             ELSE [exc |-> "", entry |-> bibentry, printed |-> <<>>]
        ELSE [exc |-> "", entry |-> Put(bibentry, F_doi, doi), printed |-> <<>>]

----------------------------------------------------------------------------
\* The inputs of a run: command line, input file, key file, and the answers
\* of the external service.

K1 == <<"X","1">>
K2 == <<"X","2">>
K3 == <<"X","3">>
KeyNames == {K1, K2, K3}

Book == <<"b","o","o","k">>
Title == <<"D"," ","L">>                 \* "Deep Learning"
TitleRaw == <<"D"," ","\n"," ","L">>     \* the same, broken over two lines
TitleFolded == <<"d"," ","l">>
TitleSurvey == <<"D"," ","L",":","S">>   \* "Deep Learning: A Survey"
DoiAbc == <<"1","/","a">>
DoiABC == <<"1","/","A">>
DoiXyz == <<"1","/","x">>
Email == <<"r","@","x">>

\* an entry of the given fields: fs is a set of <<name, value>> pairs
Entry(id, fs) ==
    [f \in {F_ID, F_ENTRYTYPE} \cup {p[1] : p \in fs} |->
        IF f = F_ID THEN id
        ELSE IF f = F_ENTRYTYPE THEN Book
        ELSE (CHOOSE p \in fs : p[1] = f)[2]]

\* the sets of fields an entry of the input file may carry
RawFieldSets ==
    {{}, {<<F_title, Title>>}, {<<F_title, TitleRaw>>},
     {<<F_title, Title>>, <<F_doi, DoiAbc>>}}

RawEntries == {Entry(k, fs) : k \in KeyNames, fs \in RawFieldSets}

UniqueIDs(entries) ==
    \A m, n \in DOMAIN entries : m # n => entries[m][F_ID] # entries[n][F_ID]

\* the contents of an input file: records with unique keys
Collections(E, max) == {c \in SeqsBetween(E, 0, max) : UniqueIDs(c)}

\* the lines of a key file
KeyLines == {k \o <<"\n">> : k \in KeyNames} \cup {<<" ">> \o K1 \o <<" ", "\n">>, <<"\n">>}
Line(k) == k \o <<"\n">>
PaddedLine(k) == <<" ">> \o k \o <<" ", "\n">>

\* the key files of the runs
KeyFiles == {<<>>, <<Line(K1)>>, <<Line(K1), Line(K3)>>,
             <<PaddedLine(K2), Line(K1)>>, <<Line(K3), Line(K2), Line(K2)>>}

\* the items Crossref may return
Item(t, d) == [title |-> <<t>>, DOI |-> d]

\* the answers of Crossref in the runs
Responses == {<<>>, <<Item(TitleFolded, DoiABC)>>,
              <<Item(TitleFolded, DoiXyz), Item(TitleSurvey, DoiABC)>>,
              <<Item(TitleSurvey, DoiXyz), Item(TitleFolded, DoiABC)>>}

ArgsSet == [format : {"bib", "tsv"},
            tsv_fields : {None, Some(F_ID \o <<",">> \o F_doi)},
            email : {None, Some(Email)},
            keys : {None, Some("keys.txt")}]

NoDatabase == [entries |-> <<>>, entries_dict |-> {}]

----------------------------------------------------------------------------
\* The script (the __main__ block), one action for each of its steps.

Abort(exception) ==
    /\ pc' = "aborted"
    /\ error' = exception

\* the condition with the format mistaken
tsv_fields_missing_for_bib(a) == a.format = "bib" /\ IsNone(a.tsv_fields)

\* the condition of parser.error("Format 'tsv' requires --tsv-fields.")
tsv_fields_missing(a) == a.format = "tsv" /\ IsNone(a.tsv_fields)

\* the check of the arguments, right after parse_args()
CheckArgs ==
    /\ pc = "main"
    /\ IF tsv_fields_missing(args)
       THEN Abort("SystemExit")
       ELSE pc' = "get_bibtex" /\ error' = error
    /\ UNCHANGED <<before, args, parsed, bibtex, keys, missing, cr, i, okcount, items,
                   item, queries, stdout, output>>

\* bibtex = get_bibtex(args.file): the file does not parse, or its records
ReadBibtex ==
    /\ pc = "get_bibtex"
    /\ \/ /\ Abort("ParseError")
          /\ UNCHANGED <<parsed, bibtex>>
       \/ \E raw \in Collections(RawEntries, MaxEntries) :
             /\ parsed' = get_bibtex(raw)
             /\ bibtex' = [NoDatabase EXCEPT !.entries = get_bibtex(raw)]
             /\ pc' = "get_keys"
             /\ error' = error
    /\ UNCHANGED <<before, args, keys, missing, cr, i, okcount, items, item, queries,
                   stdout, output>>

\* keys = get_keys(args.keys); print("read", len(keys), "keys")
ReadKeysFrom(files) ==
    /\ pc = "get_keys"
    /\ \E lines \in files :
          LET f == IF IsNone(args.keys) THEN None ELSE Some(lines)
          IN  /\ keys' = get_keys(f)
              /\ IF IsNone(get_keys(f))
                 THEN Abort("TypeError")        \* len(None)
                 ELSE pc' = "check_keys" /\ error' = error
    /\ UNCHANGED <<before, args, parsed, bibtex, missing, cr, i, okcount, items, item,
                   queries, stdout, output>>

\* missing = check_keys(bibtex, keys)
CheckKeys ==
    /\ pc = "check_keys"
    /\ missing' = check_keys(bibtex, Val(keys))
    /\ bibtex' = [bibtex EXCEPT !.entries_dict = entries_dict(bibtex)]
    /\ pc' = "filter_keys"
    /\ UNCHANGED <<before, args, parsed, keys, cr, i, okcount, items, item, queries,
                   stdout, output, error>>

\* filter_keys(bibtex, keys)
FilterKeys ==
    /\ pc = "filter_keys"
    /\ bibtex' = filter_keys(bibtex, Val(keys))
    /\ pc' = "enrich"
    /\ UNCHANGED <<before, args, parsed, keys, missing, cr, i, okcount, items, item,
                   queries, stdout, output, error>>

\* cr = Crossref(); if email: Crossref(mailto = email) -- the second client
\* is not kept, cr stays the client made without an address
crossref_client(email) == [mailto |-> None]

\* enrich_from_crossref up to its loop
EnrichBegin ==
    /\ pc = "enrich"
    /\ cr' = Some(crossref_client(args.email))
    /\ okcount' = 0
    /\ i' = 1
    /\ pc' = "enrich_loop"
    /\ UNCHANGED <<before, args, parsed, bibtex, keys, missing, items, item, queries,
                   stdout, output, error>>

\* one pass of the loop of enrich_from_crossref, for bib.entries[i]; the
\* answer of Crossref is one of responses, or cr.works raises
EnrichEntryFrom(responses) ==
    /\ pc = "enrich_loop"
    /\ i <= Len(bibtex.entries)
    /\ LET entry == bibtex.entries[i]
       IN  IF F_title \notin DOMAIN entry
           THEN /\ Abort("KeyError")            \* entry["title"]
                /\ UNCHANGED <<bibtex, i, okcount, items, item, before, queries,
                               stdout>>
           ELSE /\ queries' = Append(queries, [query_bibliographic |-> entry[F_title],
                                               mailto |-> Val(cr).mailto])
                /\ \/ /\ Abort("RequestError")  \* cr.works raises
                      /\ UNCHANGED <<bibtex, i, okcount, items, item, before, stdout>>
                   \/ \E its \in responses :
                         LET m == get_matching_item(entry, its)
                             e == enrich_entry(entry, Val(m.item))
                         IN  /\ items' = Some(its)
                             /\ before' = Some(entry)
                             /\ item' = m.item
                             /\ IF m.exc # ""
                                THEN /\ Abort(m.exc)
                                     /\ UNCHANGED <<bibtex, i, okcount, stdout>>
                                ELSE IF IsNone(m.item)
                                THEN /\ stdout' = stdout \o m.printed
                                     /\ i' = i + 1
                                     /\ UNCHANGED <<bibtex, okcount, pc, error>>
                                ELSE /\ okcount' = okcount + 1
                                     /\ stdout' = stdout \o m.printed \o e.printed
                                     /\ bibtex' = [bibtex EXCEPT !.entries[i] = e.entry]
                                     /\ IF e.exc # ""
                                        THEN Abort(e.exc) /\ i' = i
                                        ELSE i' = i + 1 /\ UNCHANGED <<pc, error>>
    /\ UNCHANGED <<args, parsed, keys, missing, cr, output>>

\* the loop is over: print(okcount, "of", len(bib.entries), ...)
EnrichEnd ==
    /\ pc = "enrich_loop"
    /\ i > Len(bibtex.entries)
    /\ pc' = "write"
    /\ UNCHANGED <<before, args, parsed, bibtex, keys, missing, cr, i, okcount, items,
                   item, queries, stdout, output, error>>

\* write_tsv(bibtex, args.output, args.tsv_fields) or write_bib(bibtex, args.output)
WriteOutput ==
    /\ pc = "write"
    /\ IF args.format = "tsv"
       THEN IF IsNone(args.tsv_fields)
            THEN Abort("AttributeError") /\ output' = output   \* None.split
            ELSE /\ output' = Some([format |-> "tsv",
                                    rows |-> write_tsv(bibtex, Val(args.tsv_fields))])
                 /\ pc' = "done"
                 /\ error' = error
       ELSE /\ output' = Some([format |-> "bib", rows |-> write_bib(bibtex)])
            /\ pc' = "done"
            /\ error' = error
    /\ UNCHANGED <<before, args, parsed, bibtex, keys, missing, cr, i, okcount, items,
                   item, queries, stdout>>

Init ==
    /\ pc = "main"
    /\ args \in ArgsSet
    /\ parsed = <<>>
    /\ bibtex = NoDatabase
    /\ keys = None
    /\ missing = <<>>
    /\ cr = None
    /\ i = 0
    /\ okcount = 0
    /\ items = None
    /\ item = None
    /\ before = None
    /\ queries = <<>>
    /\ stdout = <<>>
    /\ output = None
    /\ error = ""

ReadKeys == ReadKeysFrom(KeyFiles)

EnrichEntry == EnrichEntryFrom(Responses)

Next ==
    \/ CheckArgs
    \/ ReadBibtex
    \/ ReadKeys
    \/ CheckKeys
    \/ FilterKeys
    \/ EnrichBegin
    \/ EnrichEntry
    \/ EnrichEnd
    \/ WriteOutput

Spec == Init /\ [][Next]_vars

----------------------------------------------------------------------------
\* Runs that start further down the script, with more inputs for the step
\* they are about.  Each starts in a state the script reaches when the steps
\* before have run on the same inputs.

\* the arguments of these runs: a key file is given
ArgsWith(format, fields) ==
    [format |-> format, tsv_fields |-> fields, email |-> None,
     keys |-> Some("keys.txt")]

\* the state after get_bibtex returned the entries c
AfterReadBibtex(a, c) ==
    /\ pc = "get_keys"
    /\ args = a
    /\ parsed = c
    /\ bibtex = [NoDatabase EXCEPT !.entries = c]
    /\ keys = None
    /\ missing = <<>>
    /\ cr = None
    /\ i = 0
    /\ okcount = 0
    /\ items = None
    /\ item = None
    /\ before = None
    /\ queries = <<>>
    /\ stdout = <<>>
    /\ output = None
    /\ error = ""

\* the state after filter_keys, when the key file lists the key of every
\* entry of c, in order: nothing is missing, every entry is kept
AfterFilterKeys(a, c) ==
    /\ pc = "enrich"
    /\ args = a
    /\ parsed = c
    /\ bibtex = [NoDatabase EXCEPT !.entries = c]
    /\ keys = Some([n \in DOMAIN c |-> c[n][F_ID]])
    /\ missing = <<>>
    /\ cr = None
    /\ i = 0
    /\ okcount = 0
    /\ items = None
    /\ item = None
    /\ before = None
    /\ queries = <<>>
    /\ stdout = <<>>
    /\ output = None
    /\ error = ""

\* --- key files against collections -------------------------------------

KeysEntries == {Entry(k, {<<F_title, Title>>}) : k \in KeyNames}

InitKeys ==
    \E c \in Collections(KeysEntries, MaxEntries) :
        AfterReadBibtex(ArgsWith("bib", None), c)

ReadAnyKeys == ReadKeysFrom(SeqsBetween(KeyLines, 0, MaxKeys))

NextKeys ==
    \/ ReadAnyKeys
    \/ CheckKeys
    \/ FilterKeys

SpecKeys == InitKeys /\ [][NextKeys]_vars

\* --- one entry against the answers of Crossref --------------------------

MatchEntries ==
    {Entry(K1, ts \cup ds) :
        ts \in {{<<F_title, t>>} : t \in {Title, TitleFolded, TitleSurvey, <<>>}},
        ds \in {{}} \cup {{<<F_doi, d>>} : d \in {DoiAbc, DoiABC, DoiXyz}}}

Candidates == {Item(t, d) : t \in {Title, TitleFolded, TitleSurvey},
                            d \in {DoiABC, DoiXyz}}

InitMatch ==
    \E e \in MatchEntries : AfterFilterKeys(ArgsWith("bib", None), <<e>>)

EnrichAnyEntry == EnrichEntryFrom(SeqsBetween(Candidates, 0, MaxItems))

NextMatch ==
    \/ EnrichBegin
    \/ EnrichAnyEntry
    \/ EnrichEnd

SpecMatch == InitMatch /\ [][NextMatch]_vars

\* --- field lists against collections ------------------------------------

Year == <<"2","0">>

TsvEntries ==
    {Entry(k, fs) : k \in KeyNames,
                    fs \in {{<<F_title, Title>>},
                            {<<F_title, Title>>, <<F_year, Year>>},
                            {<<F_title, Title>>, <<F_doi, DoiAbc>>}}}

\* ",".join(names)
RECURSIVE JoinComma(_)
JoinComma(names) ==
    IF names = <<>> THEN <<>>
    ELSE IF Len(names) = 1 THEN names[1]
    ELSE names[1] \o <<",">> \o JoinComma(Tail(names))

\* the values of --tsv-fields: up to MaxFields names, one of them empty
TsvFields ==
    {JoinComma(names) :
        names \in SeqsBetween({F_ID, F_doi, F_year, <<>>}, 1, MaxFields)}

InitTsv ==
    \E c \in Collections(TsvEntries, MaxEntries), fields \in TsvFields :
        AfterFilterKeys(ArgsWith("tsv", Some(fields)), c)

EnrichTsvEntry ==
    EnrichEntryFrom({<<Item(TitleSurvey, DoiXyz)>>, <<Item(TitleFolded, DoiABC)>>})

NextTsv ==
    \/ EnrichBegin
    \/ EnrichTsvEntry
    \/ EnrichEnd
    \/ WriteOutput

SpecTsv == InitTsv /\ [][NextTsv]_vars

----------------------------------------------------------------------------
\* The claims.

\* C1: once the arguments are accepted and the input is parsed, the run
\* reaches the output step whatever the lookups give: a run that has issued
\* a query does not end before something is written.
C1_RunReachesOutput == queries # <<>> => pc # "aborted"

\* C2: without --keys, reading the keys does not end the run, and the
\* entries handed to the enrichment are the parsed entries, in their order.
C2_NoKeysPassThrough ==
    IsNone(args.keys) =>
        /\ error # "TypeError"
        /\ pc = "enrich" => bibtex.entries = parsed

\* position in s of the entry with the key of e
PositionIn(s, e) == CHOOSE n \in DOMAIN s : s[n][F_ID] = e[F_ID]

\* C3: check_keys reports exactly the requested keys that no entry has, and
\* filter_keys leaves the entries whose key is requested, in their original
\* order, at most min(|input|, |requested|) of them.
C3_KeyFilter ==
    LET requested == Range(Val(keys))
        present == {parsed[n][F_ID] : n \in DOMAIN parsed}
        kept == bibtex.entries
    IN  /\ pc \in {"filter_keys", "enrich"} => Range(missing) = requested \ present
        /\ pc = "enrich" =>
              /\ \A n \in DOMAIN kept :
                    kept[n] \in Range(parsed) /\ kept[n][F_ID] \in requested
              /\ \A n \in DOMAIN parsed :
                    parsed[n][F_ID] \in requested => parsed[n] \in Range(kept)
              /\ \A m, n \in DOMAIN kept :
                    m < n => PositionIn(parsed, kept[m]) < PositionIn(parsed, kept[n])
              /\ Len(kept) <= Min(Len(parsed), Len(Val(keys)))

\* a key requested twice, a key missing, an entry dropped and two kept
C3_Witness ==
    /\ pc = "enrich"
    /\ Val(keys) = <<K3, K3, K1>>
    /\ missing # <<>>
    /\ Len(parsed) = 2
    /\ Len(bibtex.entries) = 1

\* C4: an empty list of items is "no match" without an error: the entry is
\* reported, stays as it was, and the loop goes on to the next entry.
C4_EmptyListIsNoMatch ==
    (~IsNone(items) /\ Val(items) = <<>>) =>
        /\ error = ""
        /\ IsNone(item)
        /\ i >= 2
        /\ bibtex.entries[i - 1] = Val(before)
        /\ stdout # <<>>
        /\ stdout[Len(stdout)].ID = Val(before)[F_ID]

\* C5: with a non-empty list the first item is accepted exactly when its
\* title equals the title of the entry ignoring case; no later item is ever
\* accepted or looked at; a rejected first item is reported with both titles
\* and its DOI and the entry stays as it was.
C5_FirstItemDecides ==
    (~IsNone(items) /\ Val(items) # <<>>) =>
        LET first == Val(items)[1]
            e == Val(before)
            same == CaseFold(first.title[1]) = CaseFold(e[F_title])
        IN  /\ ~IsNone(item) <=> same
            /\ ~IsNone(item) => Val(item) = first
            /\ ~same =>
                  /\ error = ""
                  /\ i >= 2
                  /\ bibtex.entries[i - 1] = e
                  /\ stdout # <<>>
                  /\ stdout[Len(stdout)] =
                        [kind |-> "no match", ID |-> e[F_ID], title |-> e[F_title],
                         best_title |-> first.title, best_DOI |-> first.DOI]

\* the first title differs, the second one is the title of the entry
C5_Witness ==
    /\ ~IsNone(items)
    /\ Len(Val(items)) = 2
    /\ Val(before)[F_title] = Title
    /\ Val(items)[1].title = <<TitleSurvey>>
    /\ Val(items)[2].title = <<Title>>
    /\ IsNone(item)
    /\ stdout # <<>>

\* the entry of the last answered query, as it is now
Enriched == bibtex.entries[IF error = "" THEN i - 1 ELSE i]

\* C6: for an accepted item, an entry that has a doi field is left exactly
\* as it was; an entry without one gets the DOI of the item as its doi field
\* and keeps every other field.
C6_OnlyAddsDoi ==
    ~IsNone(item) =>
        LET e == Val(before)
        IN  IF F_doi \in DOMAIN e
            THEN Enriched = e
            ELSE /\ DOMAIN Enriched = DOMAIN e \cup {F_doi}
                 /\ Enriched[F_doi] = Val(item).DOI
                 /\ \A f \in DOMAIN e : Enriched[f] = e[f]

\* an entry with a doi meets an accepted item whose DOI is spelled otherwise
C6_Witness ==
    /\ ~IsNone(item)
    /\ F_doi \in DOMAIN Val(before)
    /\ Val(before)[F_doi] = DoiAbc
    /\ Val(item).DOI = DoiABC
    /\ Enriched[F_doi] = DoiAbc

\* C7: when the doi of the entry differs, ignoring case, from the DOI of the
\* accepted item, the mismatch is reported and enrich_entry returns: the
\* loop goes on.
C7_MismatchIsReported ==
    (/\ ~IsNone(item)
     /\ F_doi \in DOMAIN Val(before)
     /\ Lower(Val(before)[F_doi]) # Lower(Val(item).DOI)) =>
        /\ error = ""
        /\ \E n \in DOMAIN stdout : stdout[n].kind = "DOI mismatch"

\* C8: tsv without --tsv-fields ends the run with the configuration error
\* before anything else: nothing is parsed, no key is read, no query is
\* issued, nothing is written.
C8_ConfigErrorFirst ==
    (args.format = "tsv" /\ IsNone(args.tsv_fields)) =>
        /\ pc \in {"main", "aborted"}
        /\ pc = "aborted" => error = "SystemExit"
        /\ bibtex = NoDatabase
        /\ parsed = <<>>
        /\ IsNone(keys)
        /\ IsNone(cr)
        /\ queries = <<>>
        /\ IsNone(output)

C8_Witness ==
    /\ args.format = "tsv"
    /\ IsNone(args.tsv_fields)
    /\ pc = "aborted"
    /\ error = "SystemExit"

\* C9: the table written is the header, which is the field list F asked for
\* (the names between the commas of --tsv-fields), then one row for each
\* entry in order; a row has one cell for each name of F, in the order of F:
\* the value of that field, or the empty text when the entry has none.
C9_TsvRows ==
    (pc = "done" /\ args.format = "tsv") =>
        LET rows == Val(output).rows
            entries == bibtex.entries
        IN  /\ Len(rows) = 1 + Len(entries)
            /\ JoinComma(rows[1]) = Val(args.tsv_fields)
            /\ \A k \in DOMAIN rows[1] : "," \notin Range(rows[1][k])
            /\ \A n \in DOMAIN entries :
                  /\ Len(rows[n + 1]) = Len(rows[1])
                  /\ \A k \in DOMAIN rows[1] :
                        rows[n + 1][k] =
                            IF rows[1][k] \in DOMAIN entries[n]
                            THEN entries[n][rows[1][k]]
                            ELSE <<>>

\* two entries, one without the year asked for and with a doi not asked for
C9_Witness ==
    /\ pc = "done"
    /\ args.tsv_fields = Some(F_year \o <<",">> \o F_ID)
    /\ Len(bibtex.entries) = 2
    /\ F_year \notin DOMAIN bibtex.entries[1]
    /\ F_doi \in DOMAIN bibtex.entries[1]
    /\ F_year \in DOMAIN bibtex.entries[2]
    /\ Val(output).rows[2] = <<<<>>, bibtex.entries[1][F_ID]>>

\* C10: every query goes through a client that carries the address given
\* with --email (none when none was given), one query for each entry, in the
\* order of the entries.
C10_QueriesCarryEmail ==
    \A n \in DOMAIN queries :
        /\ queries[n].mailto = args.email
        /\ queries[n].query_bibliographic = bibtex.entries[n][F_title]

====
